---- MODULE Spec2Model ----
(***************************************************************************)
(* Black-Scholes-Merton option pricing: Black_scholes_model/model.py       *)
(* (class OptionPricingModel and the interactive main()) and the example   *)
(* script Black_scholes_model/Option_price.py.                             *)
(*                                                                         *)
(* Python floats are modelled by integers in fixed point:                  *)
(*   spot, strike_price      whole currency units                          *)
(*   rfr, volatility         thousandths   (0.1  is 100)                   *)
(*   time_to_expiry          hundredths of a year (0.5 is 50)              *)
(*   d1, d2, N(.)            thousandths, the grid round(.., 3) returns    *)
(*   intermediate values     10^-8 (Unit)                                  *)
(*   prices                  10^-6 (PriceUnit)                             *)
(* math.log, math.sqrt and math.exp are computed by integer algorithms     *)
(* (series, long-hand square root); norm.cdf followed by round(.., 3) is   *)
(* tabulated on the thousandths grid, the only arguments it is given.      *)
(***************************************************************************)
EXTENDS Integers, Sequences, FiniteSets, TLC

(***************************************************************************)
(* Fixed-point arithmetic                                                  *)
(***************************************************************************)
Abs(n) == IF n < 0 THEN -n ELSE n

Sign(n) == IF n < 0 THEN -1 ELSE 1

\* round(.., 3): three decimals
Milli == 1000

Unit == 10^8

Base == 10^4

PriceUnit == 10^6

\* a*b at scale Unit, for 0 <= a, b < 4*Unit, without leaving 32 bits
Mul8(a, b) ==
    LET a1 == a \div Base
        a0 == a % Base
        b1 == b \div Base
        b0 == b % Base
    IN  a1 * b1 + (a1 * b0 + a0 * b1 + (a0 * b0) \div Base) \div Base

\* long division: <<floor(n * 10^k / d), remainder>> from <<n \div d, n % d>>
RECURSIVE LongDivStep(_, _, _, _)
LongDivStep(q, r, d, k) ==
    IF k = 0 THEN <<q, r>>
    ELSE LongDivStep(10 * q + (10 * r) \div d, (10 * r) % d, d, k - 1)

LongDiv(n, d, k) == LongDivStep(n \div d, n % d, d, k)

\* q + r/m rounded to an integer, ties to even (Python's round), 0 <= r < m
RoundParts(q, r, m) ==
    IF 2 * r > m THEN q + 1
    ELSE IF 2 * r < m THEN q
    ELSE q + (q % 2)

\* the same for qr = <<q, r>>
RoundPair(qr, m) == RoundParts(qr[1], qr[2], m)

\* n / m rounded to an integer, m > 0
RoundDiv(n, m) == RoundParts(n \div m, n % m, m)

\* round(n / d, 3) in thousandths, ties to even, d # 0
RoundQuot(n, d) ==
    Sign(n) * Sign(d) * RoundPair(LongDiv(Abs(n), Abs(d), 3), Abs(d))

\* a * n / 1000 for a thousandths factor 0 <= n <= 1000
MulMilli(a, n) ==
    Sign(a) * ((Abs(a) \div Milli) * n + ((Abs(a) % Milli) * n) \div Milli)

(***************************************************************************)
(* math.log                                                                *)
(***************************************************************************)
\* z + z^3/3 + z^5/5 + ... at scale Unit: pow = z^n, z2 = z^2
RECURSIVE AtanhSum(_, _, _, _)
AtanhSum(pow, z2, n, acc) ==
    IF pow = 0 THEN acc
    ELSE AtanhSum(Mul8(pow, z2), z2, n + 2, acc + pow \div n)

Atanh(z) == AtanhSum(z, Mul8(z, z), 1, 0)

\* ln 2 = 2 atanh(1/3)
Ln2 == 2 * Atanh(LongDiv(1, 3, 8)[1])

\* p/q = (p'/q') * 2^k with 3/4 <= p'/q' < 3/2
RECURSIVE LogReduce(_, _, _)
LogReduce(p, q, k) ==
    IF 2 * p >= 3 * q THEN LogReduce(p, 2 * q, k + 1)
    ELSE IF 4 * p < 3 * q THEN LogReduce(2 * p, q, k - 1)
    ELSE <<p, q, k>>

\* math.log(p / q) at scale Unit, p, q > 0: ln y = 2 atanh((y - 1)/(y + 1))
LogNearOne(p, q) ==
    Sign(p - q) * 2 * Atanh(LongDiv(Abs(p - q), p + q, 8)[1])

LogReduced(red) == red[3] * Ln2 + LogNearOne(red[1], red[2])

Log(p, q) == LogReduced(LogReduce(p, q, 0))

(***************************************************************************)
(* math.sqrt                                                               *)
(***************************************************************************)
RECURSIVE ISqrt(_, _)
ISqrt(n, p) == IF (p + 1) * (p + 1) > n THEN p ELSE ISqrt(n, p + 1)

\* long-hand square root: k more decimal digits of the root p, remainder r
\* the next digit of the root p for the remainder rr: the largest x with
\* (20p + x) x <= rr
SqrtDigit(p, rr) ==
    CHOOSE x \in 0..9 :
        /\ (20 * p + x) * x <= rr
        /\ (x = 9 \/ (20 * p + x + 1) * (x + 1) > rr)

RECURSIVE SqrtDigits(_, _, _)
RECURSIVE SqrtStep(_, _, _, _)
SqrtDigits(p, r, k) ==
    IF k = 0 THEN p ELSE SqrtStep(p, 100 * r, SqrtDigit(p, 100 * r), k)

SqrtStep(p, rr, d, k) == SqrtDigits(10 * p + d, rr - (20 * p + d) * d, k - 1)

\* math.sqrt(t) at scale 10^7 for t >= 0 in hundredths: sqrt(t/100) = sqrt(t)/10
SqrtFrom(p, t) == SqrtDigits(p, t - p * p, 6)

Sqrt(t) == SqrtFrom(ISqrt(t, 0), t)

(***************************************************************************)
(* math.exp                                                                *)
(***************************************************************************)
\* sum of sgn^n x^n / n! from the term of index n on, x >= 0 at scale Unit
RECURSIVE ExpSum(_, _, _, _, _)
ExpSum(term, x, n, sgn, acc) ==
    IF term = 0 THEN acc
    ELSE ExpSum(Mul8(term, x) \div (n + 1), x, n + 1, sgn,
                acc + (IF sgn < 0 /\ n % 2 = 1 THEN -term ELSE term))

\* math.exp(e) at scale Unit, e at scale 10^5 (thousandths times hundredths)
Exp(e) == ExpSum(Unit, Abs(e) * Milli, 0, Sign(e), 0)

(***************************************************************************)
(* scipy.stats.norm.cdf, rounded to 3 decimals                             *)
(***************************************************************************)
\* NormBreaks[m]: the least k >= 0 with round(norm.cdf(k/1000), 3) >= (500+m)/1000
NormBreaks ==
  <<
        2,    4,    7,    9,   12,   14,   17,   19,   22,   24,
       27,   29,   32,   34,   37,   39,   42,   44,   47,   49,
       52,   54,   57,   59,   62,   64,   67,   69,   72,   75,
       77,   80,   82,   85,   87,   90,   92,   95,   97,  100,
      102,  105,  107,  110,  112,  115,  117,  120,  122,  125,
      127,  130,  132,  135,  138,  140,  143,  145,  148,  150,
      153,  155,  158,  160,  163,  165,  168,  171,  173,  176,
      178,  181,  183,  186,  188,  191,  193,  196,  199,  201,
      204,  206,  209,  211,  214,  216,  219,  222,  224,  227,
      229,  232,  234,  237,  240,  242,  245,  247,  250,  253,
      255,  258,  260,  263,  266,  268,  271,  273,  276,  279,
      281,  284,  286,  289,  292,  294,  297,  299,  302,  305,
      307,  310,  313,  315,  318,  320,  323,  326,  328,  331,
      334,  336,  339,  342,  344,  347,  350,  352,  355,  358,
      360,  363,  366,  368,  371,  374,  376,  379,  382,  384,
      387,  390,  393,  395,  398,  401,  403,  406,  409,  412,
      414,  417,  420,  423,  425,  428,  431,  434,  436,  439,
      442,  445,  447,  450,  453,  456,  458,  461,  464,  467,
      470,  472,  475,  478,  481,  484,  486,  489,  492,  495,
      498,  501,  503,  506,  509,  512,  515,  518,  521,  523,
      526,  529,  532,  535,  538,  541,  544,  547,  550,  552,
      555,  558,  561,  564,  567,  570,  573,  576,  579,  582,
      585,  588,  591,  594,  597,  600,  603,  606,  609,  612,
      615,  618,  621,  624,  627,  630,  633,  636,  639,  642,
      645,  648,  652,  655,  658,  661,  664,  667,  670,  673,
      677,  680,  683,  686,  689,  692,  696,  699,  702,  705,
      708,  712,  715,  718,  721,  725,  728,  731,  734,  738,
      741,  744,  748,  751,  754,  758,  761,  764,  768,  771,
      774,  778,  781,  785,  788,  791,  795,  798,  802,  805,
      809,  812,  816,  819,  823,  826,  830,  833,  837,  840,
      844,  847,  851,  855,  858,  862,  866,  869,  873,  877,
      880,  884,  888,  891,  895,  899,  903,  906,  910,  914,
      918,  922,  925,  929,  933,  937,  941,  945,  949,  953,
      957,  961,  965,  969,  973,  977,  981,  985,  989,  993,
      997, 1001, 1005, 1009, 1014, 1018, 1022, 1026, 1031, 1035,
     1039, 1043, 1048, 1052, 1056, 1061, 1065, 1070, 1074, 1079,
     1083, 1088, 1092, 1097, 1101, 1106, 1110, 1115, 1120, 1125,
     1129, 1134, 1139, 1144, 1148, 1153, 1158, 1163, 1168, 1173,
     1178, 1183, 1188, 1193, 1198, 1203, 1209, 1214, 1219, 1224,
     1230, 1235, 1240, 1246, 1251, 1257, 1262, 1268, 1274, 1279,
     1285, 1291, 1296, 1302, 1308, 1314, 1320, 1326, 1332, 1338,
     1344, 1351, 1357, 1363, 1369, 1376, 1382, 1389, 1396, 1402,
     1409, 1416, 1423, 1430, 1437, 1444, 1451, 1458, 1465, 1473,
     1480, 1488, 1495, 1503, 1511, 1519, 1527, 1535, 1543, 1551,
     1559, 1568, 1577, 1585, 1594, 1603, 1612, 1622, 1631, 1641,
     1650, 1660, 1670, 1680, 1691, 1701, 1712, 1723, 1734, 1745,
     1757, 1769, 1781, 1793, 1806, 1819, 1832, 1846, 1860, 1874,
     1889, 1904, 1919, 1935, 1952, 1969, 1987, 2005, 2024, 2044,
     2065, 2086, 2109, 2133, 2158, 2184, 2212, 2242, 2274, 2308,
     2346, 2387, 2433, 2484, 2543, 2613, 2697, 2808, 2968, 3291
  >>

\* the number of breaks <= k, by bisection: lo breaks are <= k, those after hi are > k
RECURSIVE BreaksUpTo(_, _, _)
BreaksUpTo(k, lo, hi) ==
    IF lo = hi THEN lo
    ELSE LET mid == (lo + hi + 1) \div 2
         IN  IF NormBreaks[mid] <= k THEN BreaksUpTo(k, mid, hi)
             ELSE BreaksUpTo(k, lo, mid - 1)

\* round(norm.cdf(k / 1000), 3) in thousandths; norm.cdf(-x) = 1 - norm.cdf(x)
Reflect(k, n) == IF k >= 0 THEN n ELSE Milli - n

NormCdf3(k) == Reflect(k, Milli \div 2 + BreaksUpTo(Abs(k), 0, Len(NormBreaks)))

(***************************************************************************)
(* class OptionPricingModel                                                *)
(***************************************************************************)
Instances == {"a", "b"}

Queries ==
    {"d1", "d2", "normsd1", "normsd2", "call_option_price", "put_option_price"}

\* no object yet / no result yet
NoObject == [none |-> TRUE]

None == [kind |-> "none", v |-> 0]

\* a returned number, a raised exception
Value(n) == [kind |-> "value", v |-> n]

Raise(e) == [kind |-> e, v |-> 0]

\* __init__: the five arguments are stored as given
NewObject(a) ==
    [spot |-> a[1], strike_price |-> a[2], rfr |-> a[3],
     volatility |-> a[4], time_to_expiry |-> a[5]]

\* (r + v^2/2) * t at scale Unit
DriftT(r, v, t) == ((2 * Milli * r + v * v) * t) \div 2

\* v * math.sqrt(t) at scale Unit, t >= 0
VolTimes(v, s) ==
    Sign(v) * (Abs(v) * (s \div 100) + (Abs(v) * (s % 100)) \div 100)

VolSqrtT(v, t) == VolTimes(v, Sqrt(t))

\* round(a - b, 3) in thousandths: a in thousandths, b at scale Unit
SubRound3(a, b) ==
    LET m == Unit \div Milli
        k == b \div m
        r == b % m
    IN  IF r = 0 THEN a - k ELSE RoundParts(a - k - 1, m - r, m)

\* round(n / d, 3), both at scale Unit
Quotient(n, d) ==
    IF d = 0 THEN Raise("ZeroDivisionError") ELSE Value(RoundQuot(n, d))

\* (r - v^2/2) * t: the drift of d2 used for d1
DriftMinusT(r, v, t) == ((2 * Milli * r - v * v) * t) \div 2

\* d1 with the sign of the variance term wrong
d1_minus_half_variance(self) ==
    IF self.strike_price = 0 THEN Raise("ZeroDivisionError")
    ELSE IF self.spot = 0 \/ (self.spot < 0) # (self.strike_price < 0)
    THEN Raise("ValueError")
    ELSE IF self.time_to_expiry < 0 THEN Raise("ValueError")
    ELSE Quotient(Log(Abs(self.spot), Abs(self.strike_price))
                    + DriftMinusT(self.rfr, self.volatility, self.time_to_expiry),
                  VolSqrtT(self.volatility, self.time_to_expiry))

d1(self) ==
    LET s == self.spot
        x == self.strike_price
        v == self.volatility
        t == self.time_to_expiry
        r == self.rfr
    IN  IF x = 0 THEN Raise("ZeroDivisionError")              \* s / x
        ELSE IF s = 0 \/ (s < 0) # (x < 0) THEN Raise("ValueError")  \* math.log
        ELSE IF t < 0 THEN Raise("ValueError")                \* math.sqrt
        ELSE Quotient(Log(Abs(s), Abs(x)) + DriftT(r, v, t), VolSqrtT(v, t))

\* an exception raised by an operand propagates
Difference(a, self) ==
    IF a.kind # "value" THEN a
    ELSE Value(SubRound3(a.v, VolSqrtT(self.volatility, self.time_to_expiry)))

\* round((n - d*d) / d, 3): d2 from the quotient n/d before it is rounded
UnroundedDifference(a, n, d) ==
    IF a.kind # "value" THEN a
    ELSE Value(RoundQuot(n - Mul8(Abs(d), Abs(d)), d))

\* d2 taken from the full-precision d1 instead of the rounded d1()
d2_from_unrounded_d1(self) ==
    UnroundedDifference(d1(self),
                        Log(Abs(self.spot), Abs(self.strike_price))
                          + DriftT(self.rfr, self.volatility, self.time_to_expiry),
                        VolSqrtT(self.volatility, self.time_to_expiry))

d2(self) == Difference(d1(self), self)

\* round(norm.cdf(a), 3)
RoundedCdf(a) == IF a.kind # "value" THEN a ELSE Value(NormCdf3(a.v))

\* round(norm.cdf(-a), 3)
RoundedCdfNeg(a) == IF a.kind # "value" THEN a ELSE Value(NormCdf3(-a.v))

\* normsd1 returning d1 itself, norm.cdf left out
normsd1_without_cdf(self) == d1(self)

normsd1(self) == RoundedCdf(d1(self))

normsd2(self) == RoundedCdf(d2(self))

\* strike_price * math.exp(-rfr * time_to_expiry) at scale PriceUnit
DiscountedStrike(self) ==
    self.strike_price
      * (Exp(-(self.rfr * self.time_to_expiry)) \div (Unit \div PriceUnit))

\* (spot * n1) - (strike_price * exp(-rfr * time_to_expiry) * n2)
CallPrice(n1, n2, self) ==
    IF n1.kind # "value" THEN n1
    ELSE IF n2.kind # "value" THEN n2
    ELSE Value(self.spot * n1.v * (PriceUnit \div Milli)
                 - MulMilli(DiscountedStrike(self), n2.v))

call_option_price(self) == CallPrice(normsd1(self), normsd2(self), self)

\* (strike_price * exp(-rfr * time_to_expiry) * nd2_neg) - (spot * nd1_neg)
PutPrice(nd1_neg, nd2_neg, self) ==
    IF nd1_neg.kind # "value" THEN nd1_neg
    ELSE IF nd2_neg.kind # "value" THEN nd2_neg
    ELSE Value(MulMilli(DiscountedStrike(self), nd2_neg.v)
                 - self.spot * nd1_neg.v * (PriceUnit \div Milli))

\* the put priced with N(d1), N(d2) in place of N(-d1), N(-d2)
put_without_negation(self) ==
    PutPrice(RoundedCdf(d1(self)), RoundedCdf(d2(self)), self)

put_option_price(self) ==
    PutPrice(RoundedCdfNeg(d1(self)), RoundedCdfNeg(d2(self)), self)

Call(q, self) ==
    CASE q = "d1" -> d1(self)
      [] q = "d2" -> d2(self)
      [] q = "normsd1" -> normsd1(self)
      [] q = "normsd2" -> normsd2(self)
      [] q = "call_option_price" -> call_option_price(self)
      [] q = "put_option_price" -> put_option_price(self)

(***************************************************************************)
(* float(text): text is a sequence of characters                           *)
(***************************************************************************)
Digits == {"0", "1", "2", "3", "4", "5", "6", "7", "8", "9"}

DigitVal ==
    ("0" :> 0) @@ ("1" :> 1) @@ ("2" :> 2) @@ ("3" :> 3) @@ ("4" :> 4) @@
    ("5" :> 5) @@ ("6" :> 6) @@ ("7" :> 7) @@ ("8" :> 8) @@ ("9" :> 9)

\* the value of a digit string
RECURSIVE DigitsVal(_, _)
DigitsVal(ds, acc) ==
    IF ds = <<>> THEN acc ELSE DigitsVal(Tail(ds), 10 * acc + DigitVal[Head(ds)])

\* float(): [sign] digits [. digits] with a digit somewhere, in hundredths;
\* anything else raises ValueError
ParseFloat(txt) ==
    LET neg   == txt # <<>> /\ Head(txt) \in {"-", "+"}
        body  == IF neg THEN Tail(txt) ELSE txt
        dots  == {i \in 1..Len(body) : body[i] = "."}
        dot   == IF dots = {} THEN Len(body) + 1
                 ELSE CHOOSE i \in dots : \A j \in dots : i <= j
        int   == SubSeq(body, 1, dot - 1)
        frac  == SubSeq(body, dot + 1, Len(body))
        frac2 == SubSeq(frac \o <<"0", "0">>, 1, 2)
        ok    == /\ \A i \in 1..Len(int) : int[i] \in Digits
                 /\ \A i \in 1..Len(frac) : frac[i] \in Digits
                 /\ Len(int) + Len(frac) > 0
        mag   == DigitsVal(int, 0) * 100 + DigitsVal(frac2, 0)
    IN  IF ok
        THEN [ok |-> TRUE, v |-> IF neg /\ Head(txt) = "-" THEN -mag ELSE mag]
        ELSE [ok |-> FALSE, v |-> 0]

(***************************************************************************)
(* Inputs                                                                  *)
(***************************************************************************)
\* Option_price.py: spot=140, strike_price=100, rfr=0.1, volatility=0.3, time_to_expiry=.5
ScriptArgs == <<140, 100, 100, 300, 50>>

\* The valid arguments a caller constructs the model with.  At the money with
\* sqrt(t) rational the quotient of d1 can fall exactly between two thousandths,
\* where the float result rests on representation error; the grid has no such point.
Spots == {50, 100, 140}

Strikes == {100, 200}

Rates == {1, 100}

Vols == {250, 300}

Times == {1, 50, 100}

\* spot=50, strike=200, rfr=0.05, volatility=0.2, time_to_expiry=1.0
DeepOutOfTheMoney == <<50, 200, 50, 200, 100>>

ValidInputs ==
    (Spots \X Strikes \X Rates \X Vols \X Times) \cup {DeepOutOfTheMoney}

\* one or two arguments of the script's call outside the formula's domain
InvalidInputs ==
    {[ScriptArgs EXCEPT ![4] = v] : v \in {0, -300}}
      \cup {[ScriptArgs EXCEPT ![5] = t] : t \in {0, -50}}
      \cup {[ScriptArgs EXCEPT ![1] = s] : s \in {0, -10}}
      \cup {[ScriptArgs EXCEPT ![2] = x] : x \in {0, -100}}
      \cup {[ScriptArgs EXCEPT ![1] = -10, ![2] = -100]}

Inputs == ValidInputs \cup InvalidInputs

\* the texts typed at the five prompts of main()
PromptTexts ==
    << {<<"1", "4", "0">>, <<"a", "b", "c">>},
       {<<"1", "0", "0">>, <<>>},
       {<<"1", "0">>, <<"1", "o">>},
       {<<"3", "0">>, <<"0">>, <<"-", "3", "0">>},
       {<<"0", ".", "5">>, <<"0">>, <<"1", "y">>} >>

FieldNames == <<"spot", "strike_price", "rfr", "volatility", "time_to_expiry">>

\* main(): what is stored for prompt k from the parsed number n (hundredths):
\* spot and strike as typed, rfr and volatility divided by 100, time as typed
Stored(k, n) ==
    IF k \in {1, 2} THEN n \div 100
    ELSE IF k \in {3, 4} THEN n \div 10
    ELSE n

\* the order in which the results are printed
MainOrder ==
    <<"d1", "d2", "normsd1", "normsd2", "call_option_price", "put_option_price">>

ScriptOrder ==
    <<"d1", "normsd1", "d2", "normsd2", "call_option_price", "put_option_price">>

\* queries made through the class by a calling program, per run
MaxCalls == 3

(***************************************************************************)
(* State                                                                   *)
(***************************************************************************)
VARIABLES
    entry,   \* the program run: "api" (a caller of the class), "main", "script"
    args,    \* the constructor arguments (main: the values read so far)
    obj,     \* obj[i]: the fields of instance i, NoObject before __init__
    first,   \* first[i][q]: what query q returned the first time on i
    last,    \* last[i][q]: what query q returned the last time on i
    calls,   \* queries made so far by the calling program
    pc,      \* where main() or the script is
    out,     \* stdout: prompts and printed results, in order
    fault,   \* the exception that ended the run unhandled, "none" otherwise
    err,     \* stderr
    badField \* the prompt whose text float() rejected, 0 if none

vars == <<entry, args, obj, first, last, calls, pc, out, fault, err, badField>>

Init ==
    /\ entry \in {"api", "main", "script"}
    /\ args \in (IF entry = "api" THEN Inputs
                 ELSE IF entry = "script" THEN {ScriptArgs} ELSE {<<>>})
    /\ obj = [i \in Instances |-> NoObject]
    /\ first = [i \in Instances |-> [q \in Queries |-> None]]
    /\ last = [i \in Instances |-> [q \in Queries |-> None]]
    /\ calls = 0
    /\ pc = IF entry = "api" THEN "caller"
            ELSE IF entry = "main" THEN "input" ELSE "construct"
    /\ out = <<>>
    /\ fault = "none"
    /\ err = <<>>
    /\ badField = 0

(***************************************************************************)
(* A calling program: OptionPricingModel(...) and the six queries          *)
(***************************************************************************)
Construct(i) ==
    /\ entry = "api"
    /\ obj[i] = NoObject
    /\ obj' = [obj EXCEPT ![i] = NewObject(args)]
    /\ UNCHANGED <<entry, args, first, last, calls, pc, out, fault, err, badField>>

\* a query that rescales a percentage it finds in self.volatility, in place
InvokeRescaling(i, q, res) ==
    /\ entry = "api"
    /\ obj[i] # NoObject
    /\ calls < MaxCalls
    /\ calls' = calls + 1
    /\ last' = [last EXCEPT ![i][q] = res]
    /\ first' = [first EXCEPT ![i][q] = IF @ = None THEN res ELSE @]
    /\ obj' = [obj EXCEPT ![i].volatility = @ \div 100]
    /\ UNCHANGED <<entry, args, pc, out, fault, err, badField>>

\* a query that keeps what it computed in a sixth attribute of the object
InvokeCaching(i, q, res) ==
    /\ entry = "api"
    /\ obj[i] # NoObject
    /\ calls < MaxCalls
    /\ calls' = calls + 1
    /\ last' = [last EXCEPT ![i][q] = res]
    /\ first' = [first EXCEPT ![i][q] = IF @ = None THEN res ELSE @]
    /\ obj' = [obj EXCEPT ![i] =
                  [k \in DOMAIN obj[i] \cup {"cache"} |->
                      IF k = "cache" THEN res.v ELSE obj[i][k]]]
    /\ UNCHANGED <<entry, args, pc, out, fault, err, badField>>

\* query q on instance i returns (or raises) res; the object is left as it is
Invoke(i, q, res) ==
    /\ entry = "api"
    /\ obj[i] # NoObject
    /\ calls < MaxCalls
    /\ calls' = calls + 1
    /\ last' = [last EXCEPT ![i][q] = res]
    /\ first' = [first EXCEPT ![i][q] = IF @ = None THEN res ELSE @]
    /\ UNCHANGED <<entry, args, obj, pc, out, fault, err, badField>>

CallD1(i) == Invoke(i, "d1", d1(obj[i]))

CallD2(i) == Invoke(i, "d2", d2(obj[i]))

CallNormsd1(i) == Invoke(i, "normsd1", normsd1(obj[i]))

CallNormsd2(i) == Invoke(i, "normsd2", normsd2(obj[i]))

CallCallOptionPrice(i) ==
    Invoke(i, "call_option_price", call_option_price(obj[i]))

CallPutOptionPrice(i) ==
    Invoke(i, "put_option_price", put_option_price(obj[i]))

(***************************************************************************)
(* main()                                                                  *)
(***************************************************************************)
\* what the interpreter writes to stderr for an exception nobody caught
Traceback(e) == [kind |-> "traceback", what |-> e]

\* one float(input(prompt)): the prompt is written, the text read and parsed
MainInput ==
    /\ entry = "main"
    /\ pc = "input"
    /\ LET k == Len(args) + 1
       IN  \E txt \in PromptTexts[k] :
             LET p == ParseFloat(txt)
             IN  /\ out' = Append(out, [kind |-> "prompt", what |-> FieldNames[k], v |-> 0])
                 /\ IF p.ok
                    THEN /\ args' = Append(args, Stored(k, p.v))
                         /\ pc' = IF k = 5 THEN "construct" ELSE "input"
                         /\ UNCHANGED <<fault, err, badField>>
                    ELSE /\ fault' = "ValueError"
                         /\ err' = Append(err, Traceback("ValueError"))
                         /\ badField' = k
                         /\ pc' = "exit1"
                         /\ UNCHANGED args
    /\ UNCHANGED <<entry, obj, first, last, calls>>

MainConstruct ==
    /\ entry = "main"
    /\ pc = "construct"
    /\ obj' = [obj EXCEPT !["a"] = NewObject(args)]
    /\ pc' = "print"
    /\ UNCHANGED <<entry, args, first, last, calls, out, fault, err, badField>>

Results(o) == SelectSeq(o, LAMBDA e : e.kind = "result")

\* the next print: the query is evaluated, then its value written; an exception
\* it raises is not caught
\* print(...) of query q, the n-th of `of`; res is what the query returns or raises
PrintResult(q, res, shown, n, of) ==
    /\ IF res.kind = "value"
       THEN /\ out' = Append(out, [kind |-> "result", what |-> q, v |-> shown])
            /\ pc' = IF n = of THEN "exit0" ELSE "print"
            /\ UNCHANGED <<fault, err>>
       ELSE /\ fault' = res.kind
            /\ err' = Append(err, Traceback(res.kind))
            /\ pc' = "exit1"
            /\ UNCHANGED out
    /\ UNCHANGED <<entry, args, obj, first, last, calls, badField>>

MainPrintOf(q, res, n) == PrintResult(q, res, res.v, n, Len(MainOrder))

MainPrintNth(n) == MainPrintOf(MainOrder[n], Call(MainOrder[n], obj["a"]), n)

MainPrint ==
    /\ entry = "main"
    /\ pc = "print"
    /\ MainPrintNth(Len(Results(out)) + 1)

(***************************************************************************)
(* Option_price.py                                                         *)
(***************************************************************************)
ScriptConstruct ==
    /\ entry = "script"
    /\ pc = "construct"
    /\ obj' = [obj EXCEPT !["a"] = NewObject(args)]
    /\ pc' = "print"
    /\ UNCHANGED <<entry, args, first, last, calls, out, fault, err, badField>>

\* the two prices are printed as round(price, 3)
ScriptShown(q, v) ==
    IF q \in {"call_option_price", "put_option_price"}
    THEN RoundDiv(v, PriceUnit \div Milli)
    ELSE v

ScriptPrintOf(q, res, n) ==
    PrintResult(q, res, ScriptShown(q, res.v), n, Len(ScriptOrder))

ScriptPrintNth(n) ==
    ScriptPrintOf(ScriptOrder[n], Call(ScriptOrder[n], obj["a"]), n)

ScriptPrint ==
    /\ entry = "script"
    /\ pc = "print"
    /\ ScriptPrintNth(Len(Results(out)) + 1)

Next ==
    \/ \E i \in Instances : Construct(i)
    \/ \E i \in Instances : CallD1(i)
    \/ \E i \in Instances : CallD2(i)
    \/ \E i \in Instances : CallNormsd1(i)
    \/ \E i \in Instances : CallNormsd2(i)
    \/ \E i \in Instances : CallCallOptionPrice(i)
    \/ \E i \in Instances : CallPutOptionPrice(i)
    \/ MainInput
    \/ MainConstruct
    \/ MainPrint
    \/ ScriptConstruct
    \/ ScriptPrint

Spec == Init /\ [][Next]_vars

(***************************************************************************)
(* Properties                                                              *)
(***************************************************************************)
FieldSet == {"spot", "strike_price", "rfr", "volatility", "time_to_expiry"}

\* the domain of the formulas: S, X > 0 and v, T > 0
Valid(self) ==
    /\ self.spot > 0
    /\ self.strike_price > 0
    /\ self.volatility > 0
    /\ self.time_to_expiry > 0

Built == {i \in Instances : obj[i] # NoObject}

Returned(i, q) == last[i][q].kind = "value"

\* C1: constructing with volatility = 0, time_to_expiry = 0 or spot = -10 is
\* refused: no object with such a field ever exists.
C1_ConstructionRefused ==
    \A i \in Built :
        ~(obj[i].volatility = 0 \/ obj[i].time_to_expiry = 0 \/ obj[i].spot = -10)

\* C2: outside the domain (volatility <= 0, time_to_expiry <= 0, spot <= 0 or
\* strike_price <= 0) no query returns a number and no result is printed.
C2_NoValueOutsideDomain ==
    \A i \in Built :
        ~Valid(obj[i]) =>
            /\ \A q \in Queries : ~Returned(i, q)
            /\ Results(out) = <<>>

\* C3: for valid inputs d2() is round(d1() - volatility*sqrt(time_to_expiry), 3)
\* of the rounded d1(): the thousandth nearest to that difference.
C3_D2FromRoundedD1 ==
    \A i \in Built :
        (Valid(obj[i]) /\ Returned(i, "d1") /\ Returned(i, "d2")) =>
            2 * Abs((last[i]["d2"].v - last[i]["d1"].v) * (Unit \div Milli)
                      + VolSqrtT(obj[i].volatility, obj[i].time_to_expiry))
              <= Unit \div Milli

\* d1() and d2() have both returned on a valid instance, and d2() is not what
\* the unrounded d1 would have given
C3_Witness ==
    \E i \in Built :
        /\ Valid(obj[i])
        /\ Returned(i, "d1")
        /\ Returned(i, "d2")
        /\ last[i]["d2"] # d2_from_unrounded_d1(obj[i])

\* spot - strike_price * exp(-rfr * time_to_expiry) at scale PriceUnit
Forward(self) == self.spot * PriceUnit - DiscountedStrike(self)

C5_NormsInUnitInterval ==
    \A i \in Built :
        \A q \in {"normsd1", "normsd2"} :
            (Valid(obj[i]) /\ Returned(i, q)) =>
                (0 <= last[i][q].v /\ last[i][q].v <= Milli)

\* both have returned on a valid instance, normsd1() an end of the interval
C5_Witness ==
    \E i \in Built :
        /\ Valid(obj[i])
        /\ Returned(i, "normsd1")
        /\ Returned(i, "normsd2")
        /\ last[i]["normsd1"].v \in {0, Milli}

\* C6: every query returns what it returned the first time, on the same
\* instance and on any other instance built from the same five inputs (all
\* instances of a run are built from args).
C6_Determinism ==
    \A i \in Instances :
        \A j \in Instances :
            \A q \in Queries :
                (first[i][q] # None /\ last[j][q] # None) =>
                    last[j][q] = first[i][q]

\* a query has been repeated on one instance and made on the other as well
C6_Witness ==
    \E q \in Queries :
        /\ first["a"][q] # None
        /\ first["b"][q] # None
        /\ calls > Cardinality({iq \in Instances \X Queries :
                                   first[iq[1]][iq[2]] # None})

\* C7: no step changes the fields of a constructed object, and an object has
\* no attribute but the five fields.
C7_InputsImmutable ==
    [][\A i \in Instances :
          /\ obj[i] # NoObject => obj'[i] = obj[i]
          /\ obj'[i] # NoObject => DOMAIN obj'[i] = FieldSet]_vars

\* every allowed query has been made and the fields are the constructor's arguments
C7_Witness ==
    \E i \in Built :
        /\ calls = MaxCalls
        /\ \E q \in Queries : last[i][q] # None
        /\ obj[i] = NewObject(args)

\* C8: a run that ends normally has printed exactly the six results in the
\* order d1, d2, N(d1), N(d2), call price, put price, whichever entry point
\* printed them, and no result is printed before the five inputs are there.
C8_PrintOrder ==
    /\ pc = "exit0" =>
          [k \in 1..Len(Results(out)) |-> Results(out)[k].what] = MainOrder
    /\ Results(out) # <<>> => Len(args) = Len(FieldNames)

\* C9: a text that is no number ends main() with one message naming the field
\* and a non-zero status, not with an unhandled exception; no result is printed.
C9_ParseFailureReported ==
    badField # 0 =>
        /\ fault = "none"
        /\ err = <<[kind |-> "message", what |-> FieldNames[badField]]>>
        /\ pc = "exit1"
        /\ Results(out) = <<>>

\* the instances and the printed lines of scenario 1:
\* spot=140, strike_price=100, rfr=0.1, volatility=0.3, time_to_expiry=0.5
Scenario1(i) == obj[i] = NewObject(ScriptArgs)

\* C10 as stated: in scenario 1 d1() is about 1.413 (within 0.05), and both
\* prices are positive.
C10_Scenario1AsStated ==
    \A i \in Built :
        Scenario1(i) =>
            /\ Returned(i, "d1") => Abs(last[i]["d1"].v - 1413) <= 50
            /\ Returned(i, "call_option_price") => last[i]["call_option_price"].v > 0
            /\ Returned(i, "put_option_price") => last[i]["put_option_price"].v > 0

\* C10 amended: in scenario 1 d1() is 1.928, and both prices are positive;
\* Option_price.py prints that d1.
C10_Scenario1 ==
    /\ \A i \in Built :
          Scenario1(i) =>
              /\ Returned(i, "d1") => last[i]["d1"].v = 1928
              /\ Returned(i, "call_option_price") => last[i]["call_option_price"].v > 0
              /\ Returned(i, "put_option_price") => last[i]["put_option_price"].v > 0
    /\ entry = "script" =>
          \A k \in 1..Len(out) :
              /\ out[k].what = "d1" => out[k].v = 1928
              /\ out[k].what \in {"call_option_price", "put_option_price"}
                    => out[k].v > 0

\* d1() and both prices have been returned in scenario 1
C10_Witness ==
    \E i \in Built :
        /\ Scenario1(i)
        /\ Returned(i, "d1")
        /\ Returned(i, "call_option_price")
        /\ Returned(i, "put_option_price")

====
